---------------------------- MODULE Spec2Model ----------------------------
(***************************************************************************)
(* A model of the AI meeting summarizer front end.                         *)
(*                                                                         *)
(*   App            src/App.tsx:14-181        transcript / summary state   *)
(*   FileUpload     src/components/FileUpload.tsx:9-87                     *)
(*   AudioInput     src/components/FileUpload.tsx:113-304  audio capture   *)
(*   ResultDisplay  src/App.tsx:257-511       playback engine              *)
(*   gateway        src/services/geminiService.ts                          *)
(*                                                                         *)
(* Every event handler and every continuation of an await is one action.   *)
(* A promise in flight is an element of a sequence of pending calls; the   *)
(* environment (the model API, the browser) resolves or rejects it in a    *)
(* later step.  React state setters called on an unmounted component are   *)
(* no-ops; refs of an unmounted component stay reachable from the          *)
(* closures of its pending callbacks.                                      *)
(***************************************************************************)
EXTENDS Integers, Sequences, FiniteSets, TLC

(***************************************************************************)
(* Bounds of the model.                                                    *)
(***************************************************************************)
\* pending summarizeTranscript() promises the model can hold at once
MaxSummarize == 2
\* ResultDisplay instances mounted over a run
MaxResultDisplays == 2
\* pending generateSpeech() promises one ResultDisplay can hold at once
MaxSpeech == 2
\* AudioBufferSourceNode objects of one ResultDisplay that exist at once
MaxSources == 2
\* getUserMedia() requests of one AudioInput whose stream, recorder or timer exists
MaxMics == 2
\* pending processAudio() calls one AudioInput can hold at once
MaxTranscribe == 2
\* action items in one model response
MaxActionItems == 1
\* action items in the result a ResultDisplay filters
MaxFilterItems == 3
\* bytes in a payload handed to decodeAudioData
MaxPayloadBytes == 4

(***************************************************************************)
(* Values.  Text is a sequence of characters so that trim(), endsWith()    *)
(* and startsWith() are computed and not assumed.                          *)
(***************************************************************************)
Null == "null"

Whitespace == {" ", "\n"}

\* the texts a user can type into the transcript box
Texts == { <<>>, <<" ", "\n">>, <<"a">>, <<" ", "a", "\n">> }

\* the texts a user can type into the meeting title box
Titles == { <<>>, <<"T">> }

\* the files a user can drop or select: type is File.type, name File.name
Files ==
  { [type |-> "text/plain", name |-> <<"m", ".", "t", "x", "t">>, content |-> <<"a">>],
    [type |-> "",           name |-> <<"c", ".", "v", "t", "t">>, content |-> <<" ", "a", "\n">>],
    [type |-> "",           name |-> <<"m", ".", "t", "x", "t">>, content |-> <<"a">>],
    [type |-> "text/vtt",   name |-> <<"v", "t", "t">>,           content |-> <<"a">>],
    [type |-> "application/pdf", name |-> <<".", "v", "t", "t", ".", "p">>, content |-> <<"a">>] }

\* the files a user can drop on or select in AudioInput, by File.type
AudioPrefix == <<"a", "u", "d", "i", "o", "/">>
AudioFileTypes ==
  { AudioPrefix \o <<"m", "p", "3">>,
    <<"v", "i", "d", "e", "o", "/", "a", "u", "d", "i", "o", "/">>,
    <<"a", "u", "d", "i", "o">>,
    <<>> }

\* MediaRecorder.mimeType || 'audio/webm'
RecorderMimeType == AudioPrefix \o <<"w", "e", "b", "m">>

\* setFileName('audio_transcription.txt')
AudioFileName == <<"audio_transcription.txt">>

ErrEmptyTranscript == "Transcript is empty. Please upload, paste, or transcribe audio first."
ErrMicrophone == "Could not access microphone. Please ensure permission is granted."
ErrAudioFile == "Please upload a valid audio file."
ErrTranscribe == "Failed to transcribe audio. The file may be too large or in an unsupported format. Please try again."
ErrSpeech == "Failed to generate speech. Please try again."
ErrDecode == "decode failed"
ErrSummarize == "Failed to get summary from AI. Please check the transcript and try again."

(***************************************************************************)
(* String helpers, computed as the JavaScript built-ins compute them.      *)
(***************************************************************************)
RECURSIVE TrimStart(_)
TrimStart(s) ==
  IF s # <<>> /\ Head(s) \in Whitespace THEN TrimStart(Tail(s)) ELSE s

RECURSIVE TrimEnd(_)
TrimEnd(s) ==
  IF s # <<>> /\ s[Len(s)] \in Whitespace
    THEN TrimEnd(SubSeq(s, 1, Len(s) - 1))
    ELSE s

\* String.prototype.trim
Trim(s) == TrimEnd(TrimStart(s))

\* String.prototype.endsWith
EndsWith(s, suffix) ==
  /\ Len(suffix) <= Len(s)
  /\ SubSeq(s, Len(s) - Len(suffix) + 1, Len(s)) = suffix

\* String.prototype.startsWith
StartsWith(s, prefix) ==
  /\ Len(prefix) <= Len(s)
  /\ SubSeq(s, 1, Len(prefix)) = prefix

\* !transcript.trim(): the empty string is the only falsy string
TrimmedIsEmpty(s) == Trim(s) = <<>>

\* what only looks at the raw value, as in `!transcript`
RawIsEmpty(s) == s = <<>>

\* the test without trim()
IsBlankTranscriptUntrimmed(s) == s = <<>>

\* if (!transcript.trim()) in handleSummarize
IsBlankTranscript(s) == TrimmedIsEmpty(s)

DotVtt == <<".", "v", "t", "t">>

\* a wrong acceptance test: either suffix or type, but the suffix without its dot
AcceptsTextFileLoose(f) == f.type = "text/plain" \/ EndsWith(f.name, Tail(DotVtt))

\* file.type === 'text/plain' || file.name.endsWith('.vtt')
AcceptsTextFile(f) == f.type = "text/plain" \/ EndsWith(f.name, DotVtt)

(***************************************************************************)
(* State.                                                                  *)
(***************************************************************************)
VARIABLES
  \* App (useState)
  transcript,       \* string
  summaryResult,    \* SummaryResult | null : <<>> is null, <<r>> a result
  isLoading,        \* boolean
  error,            \* string | null
  fileName,         \* string
  activeInputTab,   \* 'text' | 'audio'
  meetingTitle,     \* string
  \* promises in flight
  summarizeCalls,   \* pending summarizeTranscript() calls of handleSummarize
  fileReads,        \* files a FileReader is reading (reader.onload pending)
  \* history
  lastSettled       \* how the latest summarize call settled, if it has

appVars == << transcript, summaryResult, isLoading, error, fileName,
              activeInputTab, meetingTitle, summarizeCalls, fileReads,
              lastSettled >>

VARIABLES
  \* ResultDisplay, one record per instance React has mounted
  rd,
  \* AudioInput, the instance the model follows
  ai,
  \* geminiService: a summarizeTranscript call from the model response on
  gateway,
  \* ResultDisplay: the priority filter of one instance over its result prop
  filter,
  \* one decodeAudioData call over the bytes decode() returned
  pcm

\* the functions followed on inputs of their own
fnVars == << gateway, filter, pcm >>

vars == << appVars, rd, ai, fnVars >>

NoResult == <<>>

\* the SummaryResult the gateway returns for a call: opaque, named by its request
ResultOf(call) == << [src |-> call.transcript, title |-> call.title] >>

\* overResult: the call was issued while a result was stored
NoneSettled == [outcome |-> "none", overResult |-> FALSE]

(***************************************************************************)
(* App: src/App.tsx                                                        *)
(***************************************************************************)
\* disabled={isLoading || !transcript} without the isLoading part
SummarizeEnabledIgnoringLoading ==
  /\ activeInputTab = "text"
  /\ ~RawIsEmpty(transcript)

\* the Summarize button is rendered in the text tab, disabled={isLoading || !transcript}
SummarizeEnabled ==
  /\ activeInputTab = "text"
  /\ ~(isLoading \/ RawIsEmpty(transcript))

\* the Clear button: text tab, disabled={!transcript && !summaryResult && !meetingTitle && !fileName}
ClearEnabled ==
  /\ activeInputTab = "text"
  /\ ~(/\ RawIsEmpty(transcript)
       /\ summaryResult = NoResult
       /\ meetingTitle = <<>>
       /\ fileName = <<>>)

\* onClick={() => setActiveInputTab(tab)}
App_SelectTab(tab) ==
  /\ activeInputTab' = tab
  /\ UNCHANGED << transcript, summaryResult, isLoading, error, fileName,
                  meetingTitle, summarizeCalls, fileReads, lastSettled, fnVars >>

\* textarea onChange={(e) => setTranscript(e.target.value)}
App_EditTranscript(t) ==
  /\ activeInputTab = "text"
  /\ transcript' = t
  /\ UNCHANGED << summaryResult, isLoading, error, fileName, activeInputTab,
                  meetingTitle, summarizeCalls, fileReads, lastSettled, fnVars >>

\* input onChange={(e) => setMeetingTitle(e.target.value)}
App_EditTitle(m) ==
  /\ activeInputTab = "text"
  /\ meetingTitle' = m
  /\ UNCHANGED << transcript, summaryResult, isLoading, error, fileName,
                  activeInputTab, summarizeCalls, fileReads, lastSettled, fnVars >>

\* FileUpload.handleFile: start reading an accepted file, alert() otherwise
App_handleFile(f) ==
  /\ activeInputTab = "text"
  /\ IF AcceptsTextFile(f)
       THEN fileReads' = fileReads \cup {f}
       ELSE fileReads' = fileReads
  /\ UNCHANGED << transcript, summaryResult, isLoading, error, fileName,
                  activeInputTab, meetingTitle, summarizeCalls, lastSettled, fnVars >>

\* App.handleFileUpload
handleFileUpload(content, name) ==
  /\ transcript' = content
  /\ fileName' = name
  /\ summaryResult' = NoResult
  /\ error' = Null

\* reader.onload of FileUpload.handleFile: onFileUpload(content, file.name);
\* reading a local file is taken to succeed (the code sets no reader.onerror)
App_ReaderLoad(f) ==
  /\ f \in fileReads
  /\ fileReads' = fileReads \ {f}
  /\ handleFileUpload(f.content, f.name)
  /\ UNCHANGED << isLoading, activeInputTab, meetingTitle, summarizeCalls,
                  lastSettled, fnVars >>

\* handleTranscriptionComplete without setSummaryResult(null) and setError(null)
handleTranscriptionCompleteKeepsOutput(transcribedText) ==
  /\ transcript' = transcribedText
  /\ fileName' = AudioFileName
  /\ activeInputTab' = "text"
  /\ UNCHANGED << summaryResult, error >>

\* App.handleTranscriptionComplete
handleTranscriptionComplete(transcribedText) ==
  /\ transcript' = transcribedText
  /\ fileName' = AudioFileName
  /\ activeInputTab' = "text"
  /\ summaryResult' = NoResult
  /\ error' = Null

\* the pending call handleSummarize leaves behind at its await
NewSummarizeCall ==
  [transcript |-> transcript, title |-> meetingTitle,
   prior |-> summaryResult, cleared |-> FALSE]

\* handleSummarize without setSummaryResult(null)
App_handleSummarizeKeepsResult ==
  /\ SummarizeEnabled
  /\ Len(summarizeCalls) < MaxSummarize
  /\ IF IsBlankTranscript(transcript)
       THEN /\ error' = ErrEmptyTranscript
            /\ UNCHANGED << summaryResult, isLoading, summarizeCalls, lastSettled >>
       ELSE /\ isLoading' = TRUE
            /\ error' = Null
            /\ summaryResult' = summaryResult
            /\ summarizeCalls' = Append(summarizeCalls, NewSummarizeCall)
            /\ lastSettled' = NoneSettled
  /\ UNCHANGED << transcript, fileName, activeInputTab, meetingTitle,
                  fileReads, fnVars >>

\* App.handleSummarize, up to its await
App_handleSummarize ==
  /\ SummarizeEnabled
  /\ Len(summarizeCalls) < MaxSummarize
  /\ IF IsBlankTranscript(transcript)
       THEN /\ error' = ErrEmptyTranscript
            /\ UNCHANGED << summaryResult, isLoading, summarizeCalls, lastSettled >>
       ELSE /\ isLoading' = TRUE
            /\ error' = Null
            /\ summaryResult' = NoResult
            /\ summarizeCalls' = Append(summarizeCalls, NewSummarizeCall)
            /\ lastSettled' = NoneSettled
  /\ UNCHANGED << transcript, fileName, activeInputTab, meetingTitle,
                  fileReads, fnVars >>

RemoveAt(s, k) == SubSeq(s, 1, k - 1) \o SubSeq(s, k + 1, Len(s))

\* App.handleSummarize after its await resolved: setSummaryResult(result), finally
App_SummarizeResolved(k) ==
  /\ k \in 1..Len(summarizeCalls)
  /\ summaryResult' = ResultOf(summarizeCalls[k])
  /\ isLoading' = FALSE
  /\ summarizeCalls' = RemoveAt(summarizeCalls, k)
  /\ lastSettled' = [outcome |-> "resolved",
                     overResult |-> summarizeCalls[k].prior # NoResult]
  /\ UNCHANGED << transcript, error, fileName, activeInputTab, meetingTitle,
                  fileReads, fnVars >>

\* the catch of handleSummarize without the finally block
App_SummarizeRejectedNoFinally(k) ==
  /\ k \in 1..Len(summarizeCalls)
  /\ error' = ErrSummarize
  /\ summarizeCalls' = RemoveAt(summarizeCalls, k)
  /\ lastSettled' = [outcome |-> "rejected",
                     overResult |-> summarizeCalls[k].prior # NoResult]
  /\ UNCHANGED << transcript, summaryResult, isLoading, fileName, activeInputTab,
                  meetingTitle, fileReads, fnVars >>

\* App.handleSummarize after its await rejected: catch, finally
App_SummarizeRejected(k) ==
  /\ k \in 1..Len(summarizeCalls)
  /\ error' = ErrSummarize
  /\ isLoading' = FALSE
  /\ summarizeCalls' = RemoveAt(summarizeCalls, k)
  /\ lastSettled' = [outcome |-> "rejected",
                     overResult |-> summarizeCalls[k].prior # NoResult]
  /\ UNCHANGED << transcript, summaryResult, fileName, activeInputTab,
                  meetingTitle, fileReads, fnVars >>

\* every pending call is from before this Clear
MarkCleared(calls) == [k \in 1..Len(calls) |-> [calls[k] EXCEPT !.cleared = TRUE]]

\* App.handleClear
App_handleClear ==
  /\ ClearEnabled
  /\ transcript' = <<>>
  /\ summaryResult' = NoResult
  /\ error' = Null
  /\ fileName' = <<>>
  /\ meetingTitle' = <<>>
  /\ summarizeCalls' = MarkCleared(summarizeCalls)
  /\ UNCHANGED << isLoading, activeInputTab, fileReads, lastSettled, fnVars >>

(***************************************************************************)
(* ResultDisplay, the playback engine: src/App.tsx:257-511                 *)
(*                                                                         *)
(* rd[i] is one instance:                                                  *)
(*   status      unborn | mounted | unmounted                              *)
(*   audioState  useState 'idle' | 'loading' | 'playing'                   *)
(*   ttsError    useState string | null                                    *)
(*   ctx         audioContextRef.current: null, or the state of the        *)
(*               AudioContext it holds (suspended | running | closed)      *)
(*   srcRef      audioSourceRef.current: 0 is null, else a source          *)
(*   srcs        the AudioBufferSourceNode objects the instance created    *)
(*   calls       handleToggleAudio calls suspended at an await             *)
(*   lastEnd     history: how the last playback of a mounted instance      *)
(*               ended (stopped | ended); none once the toggle after it    *)
(*               has played or failed                                      *)
(***************************************************************************)
Displays == 1..MaxResultDisplays
SourceIds == 1..MaxSources

\* synthesized payloads, as the bytes decode() returns
Payloads == { <<0, 128>>, <<255, 127, 1>> }

NoSource == [state |-> "none", onended |-> FALSE, pending |-> FALSE]

FreshDisplay ==
  [status |-> "unborn", audioState |-> "idle", ttsError |-> Null,
   ctx |-> Null, srcRef |-> 0,
   srcs |-> [s \in SourceIds |-> NoSource],
   calls |-> <<>>,
   lastEnd |-> "none"]

\* new Int16Array(data.buffer) needs an even byte length, createBuffer a length > 0
DecodeSucceeds(payload) == Len(payload) % 2 = 0 /\ Len(payload) > 0

\* a setter of an unmounted component is a no-op
SetAudioState(d, v) == IF d.status = "mounted" THEN [d EXCEPT !.audioState = v] ELSE d
SetTtsError(d, v) == IF d.status = "mounted" THEN [d EXCEPT !.ttsError = v] ELSE d

\* AudioBufferSourceNode.stop(): playback ends now and an ended event is
\* queued, whether or not onended is set; a source that has ended already is
\* left as it is
StopSource(src) ==
  IF src.state \in {"playing", "silent"}
    THEN [src EXCEPT !.state = "done", !.pending = TRUE]
    ELSE src

\* a source that has ended, has no event queued and is not referenced is garbage
Collect(d) ==
  [d EXCEPT !.srcs = [s \in SourceIds |->
     IF d.srcs[s].state = "done" /\ ~d.srcs[s].pending /\ d.srcRef # s
       THEN NoSource
       ELSE d.srcs[s]]]

\* source objects nothing refers to any more
FreeSources(d) == { s \in SourceIds : d.srcs[s].state = "none" }

Lowest(S) == CHOOSE x \in S : \A y \in S : x <= y

\* Case 1 of handleToggleAudio with setAudioState('idle') alone
ToggleStopKeepsHandle(d) == SetAudioState([d EXCEPT !.lastEnd = "stopped"], "idle")

\* Case 1 of handleToggleAudio without onended = null
ToggleStopKeepsOnended(d) ==
  Collect(SetAudioState(
    [d EXCEPT !.srcs[d.srcRef] = StopSource(@),
              !.srcRef = 0,
              !.lastEnd = "stopped"],
    "idle"))

\* Case 1 of handleToggleAudio: onended = null; stop(); ref = null; idle
ToggleStop(d) ==
  Collect(SetAudioState(
    [d EXCEPT !.srcs[d.srcRef] = StopSource([@ EXCEPT !.onended = FALSE]),
              !.srcRef = 0,
              !.lastEnd = "stopped"],
    "idle"))

\* Case 3 of handleToggleAudio, up to `await generateSpeech(text)`
ToggleStart(d) ==
  [SetTtsError(SetAudioState(d, "loading"), Null)
     EXCEPT !.calls = Append(@, [pc |-> "speech", payload |-> <<>>])]

\* handleToggleAudio without its Case 2
handleToggleAudioNoLoadingGuard(d) ==
  IF d.audioState = "playing" /\ d.srcRef # 0
    THEN ToggleStop(d)
    ELSE ToggleStart(d)

\* handleToggleAudio (src/App.tsx:303-320)
handleToggleAudio(d) ==
  IF d.audioState = "playing" /\ d.srcRef # 0
    THEN ToggleStop(d)
    ELSE IF d.audioState = "loading"
      THEN d
      ELSE ToggleStart(d)

\* a click on the speaker button of a mounted ResultDisplay
RD_Toggle(i) ==
  /\ rd[i].status = "mounted"
  /\ Len(rd[i].calls) < MaxSpeech
  /\ rd' = [rd EXCEPT ![i] = handleToggleAudio(rd[i])]

\* the catch block of handleToggleAudio without setAudioState('idle')
ToggleCatchKeepsLoading(d, msg) == SetTtsError(d, msg)

\* the catch block of handleToggleAudio
ToggleCatch(d, msg) ==
  [SetAudioState(SetTtsError(d, msg), "idle") EXCEPT !.lastEnd = "none"]

\* from createGain() to setAudioState('playing') (src/App.tsx:333-353)
PlayPayload(d, payload, s) ==
  IF ~DecodeSucceeds(payload)
    THEN ToggleCatch(d, ErrDecode)
    ELSE SetAudioState(
           [d EXCEPT !.srcs[s] = [state |-> IF d.ctx = "closed" THEN "silent" ELSE "playing",
                                  onended |-> TRUE, pending |-> FALSE],
                     !.srcRef = s,
                     !.lastEnd = "none"],
           "playing")

DropCall(d, k) == [d EXCEPT !.calls = RemoveAt(@, k)]

\* generateSpeech resolved: create the context if there is none, resume it if
\* it is suspended (a second await), else decode and play
RD_SpeechResolved(i, k, payload, fresh) ==
  /\ rd[i].status # "unborn"
  /\ k \in 1..Len(rd[i].calls)
  /\ rd[i].calls[k].pc = "speech"
  /\ FreeSources(rd[i]) # {}
  /\ LET d == rd[i]
         withCtx == IF d.ctx = Null THEN [d EXCEPT !.ctx = fresh] ELSE d
     IN  rd' = [rd EXCEPT ![i] =
           IF withCtx.ctx = "suspended"
             THEN [withCtx EXCEPT !.calls[k] = [pc |-> "resume", payload |-> payload]]
             ELSE PlayPayload(DropCall(withCtx, k), payload, Lowest(FreeSources(d)))]

\* generateSpeech rejected, or returned no audio data
RD_SpeechRejected(i, k) ==
  /\ rd[i].status # "unborn"
  /\ k \in 1..Len(rd[i].calls)
  /\ rd[i].calls[k].pc = "speech"
  /\ rd' = [rd EXCEPT ![i] = ToggleCatch(DropCall(rd[i], k), ErrSpeech)]

\* audioContext.resume() resolved: the context runs
RD_ResumeResolved(i, k) ==
  /\ rd[i].status # "unborn"
  /\ k \in 1..Len(rd[i].calls)
  /\ rd[i].calls[k].pc = "resume"
  /\ rd[i].ctx # "closed"
  /\ FreeSources(rd[i]) # {}
  /\ rd' = [rd EXCEPT ![i] =
       PlayPayload(DropCall([rd[i] EXCEPT !.ctx = "running"], k),
                   rd[i].calls[k].payload, Lowest(FreeSources(rd[i])))]

\* audioContext.resume() rejected (the context was closed, or may not start)
RD_ResumeRejected(i, k) ==
  /\ rd[i].status # "unborn"
  /\ k \in 1..Len(rd[i].calls)
  /\ rd[i].calls[k].pc = "resume"
  /\ rd' = [rd EXCEPT ![i] = ToggleCatch(DropCall(rd[i], k), ErrSpeech)]

\* the buffer of a playing source has been played to its end
RD_SourceFinished(i, s) ==
  /\ rd[i].srcs[s].state = "playing"
  /\ rd' = [rd EXCEPT ![i].srcs[s] = [@ EXCEPT !.state = "done", !.pending = TRUE]]

\* source.onended without audioSourceRef.current = null
OnEndedKeepsHandle(d) ==
  [SetAudioState(d, "idle")
     EXCEPT !.lastEnd = IF d.status = "mounted" THEN "ended" ELSE @]

\* source.onended (src/App.tsx:346-349)
OnEnded(d) ==
  [SetAudioState(d, "idle")
     EXCEPT !.srcRef = 0,
            !.lastEnd = IF d.status = "mounted" THEN "ended" ELSE @]

\* the browser dispatches the queued ended event of a source
RD_EndedEvent(i, s) ==
  /\ rd[i].srcs[s].pending
  /\ LET d == [rd[i] EXCEPT !.srcs[s].pending = FALSE]
     IN  rd' = [rd EXCEPT ![i] = Collect(IF d.srcs[s].onended THEN OnEnded(d) ELSE d)]

\* the cleanup of the unmount effect (src/App.tsx:362-373)
UnmountEffect(d) ==
  LET stopped == IF d.srcRef # 0
                   THEN Collect([d EXCEPT !.srcs[d.srcRef] = StopSource([@ EXCEPT !.onended = FALSE]),
                                          !.srcRef = 0])
                   ELSE d
  IN  IF stopped.ctx # Null /\ stopped.ctx # "closed"
        THEN [stopped EXCEPT !.ctx = "closed"]
        ELSE stopped

\* React discards the useState values of a component it unmounts; its refs
\* and the closures of its pending callbacks live on
Unmounted(d) ==
  [d EXCEPT !.status = "unmounted", !.audioState = "idle", !.ttsError = Null,
            !.lastEnd = "none"]

\* {!isLoading && !error && summaryResult && <ResultDisplay .../>}
ShowsResult(loading, err, result) == ~loading /\ err = Null /\ result # NoResult

MountedDisplays == { i \in Displays : rd[i].status = "mounted" }
UnbornDisplays == { i \in Displays : rd[i].status = "unborn" }

\* React commits a render of App: ResultDisplay is unmounted when the result
\* is no longer shown and a fresh instance is mounted when it is shown again
RenderResultDisplay ==
  LET was == ShowsResult(isLoading, error, summaryResult)
      now == ShowsResult(isLoading', error', summaryResult')
  IN  IF was /\ ~now
        THEN rd' = [i \in Displays |->
               IF rd[i].status = "mounted" THEN Unmounted(UnmountEffect(rd[i])) ELSE rd[i]]
        ELSE IF ~was /\ now
          THEN /\ UnbornDisplays # {}
               /\ rd' = [rd EXCEPT ![Lowest(UnbornDisplays)].status = "mounted"]
          ELSE rd' = rd

(***************************************************************************)
(* AudioInput, the capture controller: src/components/FileUpload.tsx       *)
(*                                                                         *)
(* ai is one instance:                                                     *)
(*   status          unborn | mounted | unmounted                          *)
(*   isRecording, isTranscribing, error      useState                      *)
(*   streamRef       streamRef.current: 0 is null, else a stream           *)
(*   recorderRef     mediaRecorderRef.current: 0 is null, else a recorder  *)
(*   timerRef        timerIntervalRef.current: 0 is null, else an interval *)
(*   chunks          audioChunksRef.current                                *)
(*   mics            what each handleStartRecording call acquired: its     *)
(*                   getUserMedia request, the tracks of its stream, its   *)
(*                   MediaRecorder, the interval its startTimer() set      *)
(*   calls           processAudio calls suspended at an await              *)
(* recordingTime, which only the interval callback sets and only the       *)
(* label shows, is left out.                                               *)
(***************************************************************************)
MicIds == 1..MaxMics

\* what a recorder has gathered when it stops: nothing, or one chunk
ChunkSizes == {0, 1}

\* the transcripts the gateway returns: response.text.trim()
TranscribedTexts == { Trim(t) : t \in Texts }

NoMic == [request |-> "none", tracks |-> "none", recorder |-> "none",
          stopTask |-> FALSE, timer |-> FALSE]

FreshAudioInput ==
  [status |-> "unborn", isRecording |-> FALSE, isTranscribing |-> FALSE,
   error |-> Null, streamRef |-> 0, recorderRef |-> 0, timerRef |-> 0,
   chunks |-> <<>>,
   mics |-> [k \in MicIds |-> NoMic],
   calls |-> <<>>]

SetIsRecording(a, v) == IF a.status = "mounted" THEN [a EXCEPT !.isRecording = v] ELSE a
SetIsTranscribing(a, v) == IF a.status = "mounted" THEN [a EXCEPT !.isTranscribing = v] ELSE a
SetCaptureError(a, v) == IF a.status = "mounted" THEN [a EXCEPT !.error = v] ELSE a

\* a stream, recorder and interval that are released and not referenced are garbage
CollectMics(a) ==
  [a EXCEPT !.mics = [k \in MicIds |->
     LET m == a.mics[k]
     IN  IF \/ m.request = "denied"
            \/ /\ m.request = "granted"
               /\ m.tracks = "stopped"
               /\ m.recorder = "inactive"
               /\ ~m.stopTask
               /\ ~m.timer
               /\ k \notin {a.streamRef, a.recorderRef, a.timerRef}
           THEN NoMic
           ELSE m]]

FreeMics(a) == { k \in MicIds : a.mics[k].request = "none" }

\* MediaRecorder.stop(): inactive at once, dataavailable and stop in a queued task
StopRecorder(m) == [m EXCEPT !.recorder = "inactive", !.stopTask = TRUE]

\* startTimer (lines 125-130)
startTimer(a, k) == [a EXCEPT !.mics[k].timer = TRUE, !.timerRef = k]

\* stopTimer (lines 132-138)
stopTimer(a) ==
  IF a.timerRef # 0
    THEN [a EXCEPT !.mics[a.timerRef].timer = FALSE, !.timerRef = 0]
    ELSE a

\* cleanup (lines 140-149)
cleanup(a) ==
  LET released == IF a.streamRef # 0
                    THEN [a EXCEPT !.mics[a.streamRef].tracks = "stopped",
                                   !.streamRef = 0]
                    ELSE a
      stopped == IF /\ released.recorderRef # 0
                    /\ released.mics[released.recorderRef].recorder = "recording"
                   THEN [released EXCEPT !.mics[released.recorderRef] = StopRecorder(@)]
                   ELSE released
  IN  stopTimer(stopped)

\* processAudio up to its first await (lines 157-161)
processAudio(a, blob, mimeType) ==
  [SetCaptureError(SetIsTranscribing(a, TRUE), Null)
     EXCEPT !.calls = Append(@, [blob |-> blob, mimeType |-> mimeType])]

\* handleStartRecording up to `await getUserMedia` (lines 171-174)
AI_StartRecording ==
  /\ ai.status = "mounted"
  /\ ~ai.isTranscribing
  /\ ~ai.isRecording
  /\ FreeMics(ai) # {}
  /\ ai' =
       [SetCaptureError(ai, Null)
          EXCEPT !.mics[Lowest(FreeMics(ai))].request = "pending"]

\* handleStartRecording after getUserMedia resolved (lines 175-194)
MicGranted(a, k) ==
  startTimer(
    SetIsRecording(
      [a EXCEPT !.mics[k] = [request |-> "granted", tracks |-> "live",
                             recorder |-> "recording", stopTask |-> FALSE,
                             timer |-> FALSE],
                !.streamRef = k,
                !.recorderRef = k],
      TRUE),
    k)

AI_MicGranted(k) ==
  /\ ai.status # "unborn"
  /\ ai.mics[k].request = "pending"
  /\ ai' = CollectMics(MicGranted(ai, k))

\* handleStartRecording after getUserMedia rejected (lines 196-199)
AI_MicDenied(k) ==
  /\ ai.status # "unborn"
  /\ ai.mics[k].request = "pending"
  /\ ai' =
       CollectMics(SetCaptureError([ai EXCEPT !.mics[k].request = "denied"],
                                   ErrMicrophone))

\* handleStopRecording with setIsRecording(!isRecording) for setIsRecording(false)
handleStopRecordingTogglesFlag(a) ==
  LET stopped == IF /\ a.recorderRef # 0
                    /\ a.mics[a.recorderRef].recorder = "recording"
                   THEN [a EXCEPT !.mics[a.recorderRef] = StopRecorder(@)]
                   ELSE a
  IN  stopTimer(SetIsRecording(stopped, ~a.isRecording))

\* handleStopRecording (lines 202-208)
handleStopRecording(a) ==
  LET stopped == IF /\ a.recorderRef # 0
                    /\ a.mics[a.recorderRef].recorder = "recording"
                   THEN [a EXCEPT !.mics[a.recorderRef] = StopRecorder(@)]
                   ELSE a
  IN  stopTimer(SetIsRecording(stopped, FALSE))

\* the record button shows Stop while isRecording
AI_StopRecording ==
  /\ ai.status = "mounted"
  /\ ~ai.isTranscribing
  /\ ai.isRecording
  /\ ai' = CollectMics(handleStopRecording(ai))

\* handleStopRecording invoked while isRecording is false: a click that the
\* onClick of the render before, which still showed Stop, handles (the second
\* click of a double click on Stop)
AI_StopRecordingAgain ==
  /\ ai.status = "mounted"
  /\ ~ai.isTranscribing
  /\ ~ai.isRecording
  /\ ai' = CollectMics(handleStopRecording(ai))

\* ondataavailable (lines 178-182)
OnDataAvailable(a, k, size) ==
  IF size > 0 THEN [a EXCEPT !.chunks = Append(@, k)] ELSE a

\* onstop (lines 184-190)
OnStop(a) ==
  cleanup([processAudio(a, a.chunks, RecorderMimeType) EXCEPT !.chunks = <<>>])

\* the task a stopped recorder queued: dataavailable, then stop
AI_RecorderStopTask(k, size) ==
  /\ ai.status # "unborn"
  /\ ai.mics[k].stopTask
  /\ Len(ai.calls) < MaxTranscribe
  /\ ai' =
       CollectMics(OnStop(OnDataAvailable([ai EXCEPT !.mics[k].stopTask = FALSE],
                                          k, size)))

\* the test with 'audio' for 'audio/'
AcceptsAudioFileNoSlash(type) == StartsWith(type, SubSeq(AudioPrefix, 1, 5))

\* file && file.type.startsWith('audio/')
AcceptsAudioFile(type) == StartsWith(type, AudioPrefix)

\* handleAudioFile (lines 216-222)
handleAudioFile(a, type) ==
  IF AcceptsAudioFile(type)
    THEN processAudio(a, <<0>>, type)
    ELSE SetCaptureError(a, ErrAudioFile)

\* a drop on, or a selection in, the audio drop zone, which is not rendered
\* while isTranscribing
AI_AudioFile(type) ==
  /\ ai.status = "mounted"
  /\ ~ai.isTranscribing
  /\ Len(ai.calls) < MaxTranscribe
  /\ ai' = handleAudioFile(ai, type)

\* React discards the useState values of a component it unmounts
UnmountedAudioInput(a) ==
  [a EXCEPT !.status = "unmounted", !.isRecording = FALSE,
            !.isTranscribing = FALSE, !.error = Null]

\* {activeInputTab === 'audio' && <AudioInput .../>}: the unmount effect
\* (lines 151-155) runs cleanup().  The model follows one AudioInput through
\* its life: the instances React mounts after it share nothing with it but
\* the setters of App, and are not modelled.
RenderAudioInputFrom(cur) ==
  IF activeInputTab = "audio" /\ activeInputTab' # "audio" /\ cur.status = "mounted"
    THEN ai' = CollectMics(UnmountedAudioInput(cleanup(cur)))
    ELSE IF activeInputTab # "audio" /\ activeInputTab' = "audio" /\ cur.status = "unborn"
      THEN ai' = [cur EXCEPT !.status = "mounted"]
      ELSE ai' = cur

RenderAudioInput == RenderAudioInputFrom(ai)

\* processAudio after transcribeAudio resolved (lines 161-163, 166-168)
AI_TranscribeResolved(k, text) ==
  /\ ai.status # "unborn"
  /\ k \in 1..Len(ai.calls)
  /\ handleTranscriptionComplete(text)
  /\ UNCHANGED << isLoading, meetingTitle, summarizeCalls, fileReads, lastSettled, fnVars >>
  /\ RenderAudioInputFrom(
       SetIsTranscribing([ai EXCEPT !.calls = RemoveAt(@, k)], FALSE))

\* processAudio after blobToBase64 or transcribeAudio rejected (lines 164-168)
AI_TranscribeRejected(k) ==
  /\ ai.status # "unborn"
  /\ k \in 1..Len(ai.calls)
  /\ ai' =
       SetIsTranscribing(
         SetCaptureError([ai EXCEPT !.calls = RemoveAt(@, k)], ErrTranscribe),
         FALSE)

(***************************************************************************)
(* summarizeTranscript from the model response on:                         *)
(* src/services/geminiService.ts:106-125                                   *)
(*                                                                         *)
(* A JavaScript value that may be a string is [t, v]: t its type           *)
(* (undefined | null | string) and v the characters of a string.  A value  *)
(* that may be an array carries t (undefined | null | object | array) and  *)
(* the elements of an array; "object" is a value that is truthy and not an *)
(* array.  gateway is one call:                                            *)
(*   pc        idle | called | parsed | returned | thrown                  *)
(*   response  what response.text denotes                                  *)
(*   result    the object the call works on and returns                    *)
(***************************************************************************)
JsUndefined == [t |-> "undefined", v |-> << >>]
JsNull == [t |-> "null", v |-> << >>]
JsString(chars) == [t |-> "string", v |-> chars]

\* !x for a value that may be a string
Falsy(x) == x.t \in {"undefined", "null"} \/ (x.t = "string" /\ x.v = << >>)

Medium == <<"M", "e", "d", "i", "u", "m">>
High == <<"H", "i", "g", "h">>

\* what the model can send as priority and as dueDate of an action item
ResponsePriorities == { JsUndefined, JsString(<< >>), JsString(High) }
ResponseDueDates ==
  { JsUndefined, JsNull, JsString(<< >>),
    JsString(<<"2", "0", "2", "4", "-", "0", "5", "-", "0", "1">>),
    JsString(<<"F", "r", "i">>) }

NullItem == [t |-> "null", priority |-> JsUndefined, dueDate |-> JsUndefined]

ResponseItems ==
  { [t |-> "object", priority |-> p, dueDate |-> d] :
      p \in ResponsePriorities, d \in ResponseDueDates } \cup { NullItem }

NoActionItems == [t |-> "undefined", items |-> << >>]

ResponseActionItems ==
  { NoActionItems, [t |-> "object", items |-> << >>] }
    \cup { [t |-> "array", items |-> l] :
             l \in UNION { [1..n -> ResponseItems] : n \in 0..MaxActionItems } }

NoBreakdown == [t |-> "undefined", entries |-> << >>]

ResponseBreakdowns ==
  { [t |-> x, entries |-> << >>] : x \in {"undefined", "null", "object", "array"} }
    \cup { [t |-> "array", entries |-> << [speaker |-> <<"S">>, points |-> << >>] >>] }

\* response.text: text that is not JSON, the JSON null, or a JSON object
Responses ==
  { [t |-> "object", actionItems |-> a, discussionBreakdown |-> b] :
      a \in ResponseActionItems, b \in ResponseBreakdowns }
    \cup { [t |-> x, actionItems |-> NoActionItems, discussionBreakdown |-> NoBreakdown] :
             x \in {"malformed", "null"} }

GatewayIdle ==
  [pc |-> "idle",
   response |-> [t |-> "null", actionItems |-> NoActionItems,
                 discussionBreakdown |-> NoBreakdown],
   result |-> [t |-> "null", actionItems |-> NoActionItems,
               discussionBreakdown |-> NoBreakdown]]

\* JSON.parse(jsonText) throws on text that is not JSON
ParseThrows(r) == r.t = "malformed"

\* the body of the forEach (lines 111-114)
FallbackItem(item) ==
  [item EXCEPT !.priority = IF Falsy(@) THEN JsString(Medium) ELSE @,
               !.dueDate = IF @.t = "undefined" THEN JsString(<< >>) ELSE @]

\* lines 109-118 throw a TypeError on null.actionItems, on a forEach that is
\* not a function and on null.priority
FallbackThrows(r) ==
  \/ r.t = "null"
  \/ r.actionItems.t = "object"
  \/ /\ r.actionItems.t = "array"
     /\ \E n \in 1..Len(r.actionItems.items) : r.actionItems.items[n].t = "null"

\* lines 109-118
ApplyFallbacks(r) ==
  [r EXCEPT
     !.actionItems.items = [n \in 1..Len(@) |-> FallbackItem(@[n])],
     !.discussionBreakdown =
        IF @.t \in {"undefined", "null"} THEN [t |-> "array", entries |-> << >>] ELSE @]

\* const result = JSON.parse(jsonText) (lines 106-107), or the catch (122-125)
GW_ParseResponse ==
  /\ gateway.pc = "called"
  /\ gateway' =
       IF ParseThrows(gateway.response)
         THEN [gateway EXCEPT !.pc = "thrown"]
         ELSE [gateway EXCEPT !.pc = "parsed", !.result = gateway.response]
  /\ UNCHANGED << appVars, rd, ai, filter, pcm >>

\* the fallbacks and return result (lines 109-120), or the catch (122-125)
GW_ApplyFallbacks ==
  /\ gateway.pc = "parsed"
  /\ gateway' =
       IF FallbackThrows(gateway.result)
         THEN [gateway EXCEPT !.pc = "thrown"]
         ELSE [gateway EXCEPT !.pc = "returned", !.result = ApplyFallbacks(gateway.result)]
  /\ UNCHANGED << appVars, rd, ai, filter, pcm >>

(***************************************************************************)
(* The priority filter of ResultDisplay: src/App.tsx:258, 267-272, 457-460 *)
(*                                                                         *)
(* filter is one ResultDisplay instance seen through its filter only:      *)
(*   actionItems          result.actionItems, the prop                     *)
(*   activeFilter         useState 'All' | 'High' | 'Medium' | 'Low'       *)
(*   filteredActionItems  the value of the useMemo                         *)
(***************************************************************************)
Low == <<"L", "o", "w">>
All == <<"A", "l", "l">>

\* a priority string outside the Priority type, which the gateway passes on
OtherPriority == <<"U", "r", "g", "e", "n", "t">>

FilterValues == { All, High, Medium, Low }

FilterItems ==
  { [task |-> t, priority |-> p] :
      t \in {"a", "b"}, p \in {High, Medium, Low, OtherPriority} }

ActionItemLists == UNION { [1..n -> FilterItems] : n \in 0..MaxFilterItems }

\* the useMemo without the filter call
filteredActionItemsUnfiltered(items, f) == items

\* the useMemo (lines 267-272)
filteredActionItems(items, f) ==
  IF f = All
    THEN items
    ELSE SelectSeq(items, LAMBDA item : item.priority = f)

FilterIdle ==
  [actionItems |-> << >>, activeFilter |-> All, filteredActionItems |-> << >>]

\* a click on a filter button, and the render after it
RD_setActiveFilter(f) ==
  /\ filter' = [filter EXCEPT
                  !.activeFilter = f,
                  !.filteredActionItems = filteredActionItems(filter.actionItems, f)]
  /\ UNCHANGED << appVars, rd, ai, gateway, pcm >>

(***************************************************************************)
(* decodeAudioData: src/App.tsx:237-254, called with numChannels 1 and the *)
(* bytes of decode() (lines 227-235, 336-341).                             *)
(*                                                                         *)
(* pcm is one call:                                                        *)
(*   pc      idle | called | decoded | thrown                              *)
(*   data    the Uint8Array                                                *)
(*   order   the byte order of the platform, which a typed array over a    *)
(*           buffer uses (little | big)                                    *)
(*   frames  channel 0 of the AudioBuffer; a sample is the fraction        *)
(*           num / den                                                     *)
(***************************************************************************)
\* binaryString.charCodeAt(i) of an atob() result
ByteValues == { 0, 1, 127, 128, 255 }

\* atob() of a base64 string that is not empty holds at least one byte
PcmPayloads == UNION { [1..n -> ByteValues] : n \in 1..MaxPayloadBytes }

NumChannels == 1

PcmIdle == [pc |-> "idle", data |-> << >>, order |-> "little", frames |-> << >>]

\* element i of new Int16Array(data.buffer), read as an unsigned number
Int16AtUnsigned(data, i, order) ==
  IF order = "little"
    THEN data[2 * i - 1] + 256 * data[2 * i]
    ELSE data[2 * i] + 256 * data[2 * i - 1]

\* element i of new Int16Array(data.buffer): two bytes in the platform's order
Int16At(data, i, order) ==
  LET u == IF order = "little"
             THEN data[2 * i - 1] + 256 * data[2 * i]
             ELSE data[2 * i] + 256 * data[2 * i - 1]
  IN  IF u >= 32768 THEN u - 65536 ELSE u

\* channel 0 after the loops of lines 247-252
ChannelData(data, order) ==
  [i \in 1..((Len(data) \div 2) \div NumChannels) |->
     [num |-> Int16At(data, (i - 1) * NumChannels + 1, order), den |-> 32768]]

\* decodeAudioData returns its buffer, or new Int16Array / createBuffer throws
PCM_decodeAudioData ==
  /\ pcm.pc = "called"
  /\ pcm' =
       IF DecodeSucceeds(pcm.data)
         THEN [pcm EXCEPT !.pc = "decoded", !.frames = ChannelData(pcm.data, pcm.order)]
         ELSE [pcm EXCEPT !.pc = "thrown"]
  /\ UNCHANGED << appVars, rd, ai, gateway, filter >>

(***************************************************************************)
(* Specifications.                                                         *)
(***************************************************************************)
InitComponents ==
  /\ transcript = <<>>
  /\ summaryResult = NoResult
  /\ isLoading = FALSE
  /\ error = Null
  /\ fileName = <<>>
  /\ activeInputTab = "text"
  /\ meetingTitle = <<>>
  /\ summarizeCalls = <<>>
  /\ fileReads = {}
  /\ lastSettled = NoneSettled
  /\ rd = [i \in Displays |-> FreshDisplay]
  /\ ai = FreshAudioInput

Init == InitComponents /\ gateway = GatewayIdle /\ filter = FilterIdle /\ pcm = PcmIdle

\* React commits the render that follows a handler of App
Render == RenderResultDisplay /\ RenderAudioInput

Next ==
  \/ \E tab \in {"text", "audio"} : App_SelectTab(tab) /\ Render
  \/ \E t \in Texts : App_EditTranscript(t) /\ Render
  \/ \E m \in Titles : App_EditTitle(m) /\ Render
  \/ \E f \in Files : App_handleFile(f) /\ Render
  \/ \E f \in Files : App_ReaderLoad(f) /\ Render
  \/ App_handleSummarize /\ Render
  \/ \E k \in 1..MaxSummarize : App_SummarizeResolved(k) /\ Render
  \/ \E k \in 1..MaxSummarize : App_SummarizeRejected(k) /\ Render
  \/ App_handleClear /\ Render
  \/ \E i \in Displays : RD_Toggle(i) /\ UNCHANGED << appVars, ai, fnVars >>
  \/ \E i \in Displays, k \in 1..MaxSpeech, p \in Payloads, fresh \in {"running", "suspended"} :
       RD_SpeechResolved(i, k, p, fresh) /\ UNCHANGED << appVars, ai, fnVars >>
  \/ \E i \in Displays, k \in 1..MaxSpeech : RD_SpeechRejected(i, k) /\ UNCHANGED << appVars, ai, fnVars >>
  \/ \E i \in Displays, k \in 1..MaxSpeech : RD_ResumeResolved(i, k) /\ UNCHANGED << appVars, ai, fnVars >>
  \/ \E i \in Displays, k \in 1..MaxSpeech : RD_ResumeRejected(i, k) /\ UNCHANGED << appVars, ai, fnVars >>
  \/ \E i \in Displays, s \in SourceIds : RD_SourceFinished(i, s) /\ UNCHANGED << appVars, ai, fnVars >>
  \/ \E i \in Displays, s \in SourceIds : RD_EndedEvent(i, s) /\ UNCHANGED << appVars, ai, fnVars >>
  \/ AI_StartRecording /\ UNCHANGED << appVars, rd, fnVars >>
  \/ \E k \in MicIds : AI_MicGranted(k) /\ UNCHANGED << appVars, rd, fnVars >>
  \/ \E k \in MicIds : AI_MicDenied(k) /\ UNCHANGED << appVars, rd, fnVars >>
  \/ AI_StopRecording /\ UNCHANGED << appVars, rd, fnVars >>
  \/ AI_StopRecordingAgain /\ UNCHANGED << appVars, rd, fnVars >>
  \/ \E k \in MicIds, size \in ChunkSizes :
       AI_RecorderStopTask(k, size) /\ UNCHANGED << appVars, rd, fnVars >>
  \/ \E type \in AudioFileTypes : AI_AudioFile(type) /\ UNCHANGED << appVars, rd, fnVars >>
  \/ \E k \in 1..MaxTranscribe, text \in TranscribedTexts :
       AI_TranscribeResolved(k, text) /\ RenderResultDisplay
  \/ \E k \in 1..MaxTranscribe : AI_TranscribeRejected(k) /\ UNCHANGED << appVars, rd, fnVars >>

Spec == Init /\ [][Next]_vars

(***************************************************************************)
(* The application state machine: App, FileUpload and the transcripts an   *)
(* AudioInput delivers.  No handler of App reads anything of ResultDisplay *)
(* or AudioInput, so their instances are left out here; a processAudio of  *)
(* some instance, mounted or not, may deliver a transcript at any time.    *)
(***************************************************************************)
\* onTranscriptionComplete(transcript), called by processAudio of an AudioInput
App_TranscriptionDelivered(text) ==
  /\ handleTranscriptionComplete(text)
  /\ UNCHANGED << isLoading, meetingTitle, summarizeCalls, fileReads, lastSettled, fnVars >>

NextApp ==
  \/ \E tab \in {"text", "audio"} : App_SelectTab(tab) /\ UNCHANGED << rd, ai >>
  \/ \E t \in Texts : App_EditTranscript(t) /\ UNCHANGED << rd, ai >>
  \/ \E m \in Titles : App_EditTitle(m) /\ UNCHANGED << rd, ai >>
  \/ \E f \in Files : App_handleFile(f) /\ UNCHANGED << rd, ai >>
  \/ \E f \in Files : App_ReaderLoad(f) /\ UNCHANGED << rd, ai >>
  \/ App_handleSummarize /\ UNCHANGED << rd, ai >>
  \/ \E k \in 1..MaxSummarize : App_SummarizeResolved(k) /\ UNCHANGED << rd, ai >>
  \/ \E k \in 1..MaxSummarize : App_SummarizeRejected(k) /\ UNCHANGED << rd, ai >>
  \/ App_handleClear /\ UNCHANGED << rd, ai >>
  \/ \E text \in TranscribedTexts : App_TranscriptionDelivered(text) /\ UNCHANGED << rd, ai >>

SpecApp == Init /\ [][NextApp]_vars

\* the gateway call of a pending handleSummarize returns or fails
App_SummarizeSettles ==
  \E k \in 1..MaxSummarize :
    (App_SummarizeResolved(k) \/ App_SummarizeRejected(k)) /\ UNCHANGED << rd, ai >>

\* the application state machine when every gateway call returns or fails
SpecAppFair == SpecApp /\ WF_vars(App_SummarizeSettles)

(***************************************************************************)
(* The playback engine with the handlers of App that mount and unmount it. *)
(***************************************************************************)
NextPlayback ==
  \/ App_EditTranscript(<<"a">>) /\ RenderResultDisplay /\ UNCHANGED ai
  \/ App_handleSummarize /\ RenderResultDisplay /\ UNCHANGED ai
  \/ \E k \in 1..MaxSummarize : App_SummarizeResolved(k) /\ RenderResultDisplay /\ UNCHANGED ai
  \/ \E k \in 1..MaxSummarize : App_SummarizeRejected(k) /\ RenderResultDisplay /\ UNCHANGED ai
  \/ \E i \in Displays : RD_Toggle(i) /\ UNCHANGED << appVars, ai, fnVars >>
  \/ \E i \in Displays, k \in 1..MaxSpeech, p \in Payloads, fresh \in {"running", "suspended"} :
       RD_SpeechResolved(i, k, p, fresh) /\ UNCHANGED << appVars, ai, fnVars >>
  \/ \E i \in Displays, k \in 1..MaxSpeech : RD_SpeechRejected(i, k) /\ UNCHANGED << appVars, ai, fnVars >>
  \/ \E i \in Displays, k \in 1..MaxSpeech : RD_ResumeResolved(i, k) /\ UNCHANGED << appVars, ai, fnVars >>
  \/ \E i \in Displays, k \in 1..MaxSpeech : RD_ResumeRejected(i, k) /\ UNCHANGED << appVars, ai, fnVars >>
  \/ \E i \in Displays, s \in SourceIds : RD_SourceFinished(i, s) /\ UNCHANGED << appVars, ai, fnVars >>
  \/ \E i \in Displays, s \in SourceIds : RD_EndedEvent(i, s) /\ UNCHANGED << appVars, ai, fnVars >>

SpecPlayback == Init /\ [][NextPlayback]_vars

(***************************************************************************)
(* The capture controller with the handlers of App that mount and unmount  *)
(* it and that receive its transcript.                                     *)
(***************************************************************************)
NextCapture ==
  \/ \E tab \in {"text", "audio"} : App_SelectTab(tab) /\ RenderAudioInput /\ UNCHANGED rd
  \/ AI_StartRecording /\ UNCHANGED << appVars, rd, fnVars >>
  \/ \E k \in MicIds : AI_MicGranted(k) /\ UNCHANGED << appVars, rd, fnVars >>
  \/ \E k \in MicIds : AI_MicDenied(k) /\ UNCHANGED << appVars, rd, fnVars >>
  \/ AI_StopRecording /\ UNCHANGED << appVars, rd, fnVars >>
  \/ AI_StopRecordingAgain /\ UNCHANGED << appVars, rd, fnVars >>
  \/ \E k \in MicIds, size \in ChunkSizes :
       AI_RecorderStopTask(k, size) /\ UNCHANGED << appVars, rd, fnVars >>
  \/ \E type \in AudioFileTypes : AI_AudioFile(type) /\ UNCHANGED << appVars, rd, fnVars >>
  \/ \E k \in 1..MaxTranscribe, text \in TranscribedTexts :
       AI_TranscribeResolved(k, text) /\ UNCHANGED rd
  \/ \E k \in 1..MaxTranscribe : AI_TranscribeRejected(k) /\ UNCHANGED << appVars, rd, fnVars >>

SpecCapture == Init /\ [][NextCapture]_vars

(***************************************************************************)
(* summarizeTranscript over the responses the model can send.              *)
(***************************************************************************)
InitSummarize ==
  /\ InitComponents
  /\ filter = FilterIdle
  /\ pcm = PcmIdle
  /\ gateway \in { [GatewayIdle EXCEPT !.pc = "called", !.response = r] : r \in Responses }

NextSummarize ==
  \/ GW_ParseResponse
  \/ GW_ApplyFallbacks

SpecSummarize == InitSummarize /\ [][NextSummarize]_vars

(***************************************************************************)
(* The priority filter over the action-item lists a result can hold.       *)
(***************************************************************************)
InitFilter ==
  /\ InitComponents
  /\ gateway = GatewayIdle
  /\ pcm = PcmIdle
  /\ filter \in { [FilterIdle EXCEPT !.actionItems = l, !.filteredActionItems = l] :
                    l \in ActionItemLists }

NextFilter == \E f \in FilterValues : RD_setActiveFilter(f)

SpecFilter == InitFilter /\ [][NextFilter]_vars

(***************************************************************************)
(* decodeAudioData over the payloads decode() can return.                  *)
(***************************************************************************)
InitDecode ==
  /\ InitComponents
  /\ gateway = GatewayIdle
  /\ filter = FilterIdle
  /\ pcm \in { [PcmIdle EXCEPT !.pc = "called", !.data = d, !.order = o] :
                 d \in PcmPayloads, o \in {"little", "big"} }

NextDecode == PCM_decodeAudioData

SpecDecode == InitDecode /\ [][NextDecode]_vars

(***************************************************************************)
(* The playback engine and the capture controller side by side: the        *)
(* handlers that bring a result on screen, open the audio tab, play the    *)
(* summary and record, with the responses that let playback and recording  *)
(* start.  Every run of it is a run of Spec.                               *)
(***************************************************************************)
NextSession ==
  \/ App_EditTranscript(<<"a">>) /\ Render
  \/ App_handleSummarize /\ Render
  \/ \E k \in 1..MaxSummarize : App_SummarizeResolved(k) /\ Render
  \/ \E tab \in {"text", "audio"} : App_SelectTab(tab) /\ Render
  \/ \E i \in Displays : RD_Toggle(i) /\ UNCHANGED << appVars, ai, fnVars >>
  \/ \E i \in Displays, k \in 1..MaxSpeech, p \in Payloads, fresh \in {"running", "suspended"} :
       RD_SpeechResolved(i, k, p, fresh) /\ UNCHANGED << appVars, ai, fnVars >>
  \/ \E i \in Displays, k \in 1..MaxSpeech : RD_ResumeResolved(i, k) /\ UNCHANGED << appVars, ai, fnVars >>
  \/ \E i \in Displays, s \in SourceIds : RD_SourceFinished(i, s) /\ UNCHANGED << appVars, ai, fnVars >>
  \/ \E i \in Displays, s \in SourceIds : RD_EndedEvent(i, s) /\ UNCHANGED << appVars, ai, fnVars >>
  \/ AI_StartRecording /\ UNCHANGED << appVars, rd, fnVars >>
  \/ \E k \in MicIds : AI_MicGranted(k) /\ UNCHANGED << appVars, rd, fnVars >>
  \/ AI_StopRecording /\ UNCHANGED << appVars, rd, fnVars >>

SpecSession == Init /\ [][NextSession]_vars

(***************************************************************************)
(* Properties of the capture controller, checked under SpecCapture.        *)
(***************************************************************************)
\* C1: the capture controller is never recording and transcribing at once
\* (isRecording and isTranscribing are never both true).
C1_NeverRecordingAndTranscribing == ~(ai.isRecording /\ ai.isTranscribing)

\* an unmounted AudioInput none of whose callbacks is still to run: no
\* getUserMedia request is pending and no recorder has a stop task queued
CaptureQuiescent ==
  /\ ai.status = "unmounted"
  /\ \A k \in MicIds : ai.mics[k].request # "pending" /\ ~ai.mics[k].stopTask

\* C2: once the capture controller is torn down and nothing of it is still
\* to run, no microphone track is live and no recording timer is set; as no
\* step can change either afterwards, this is the state the claim says holds
\* from some point on forever.
C2_TeardownReleasesCapture ==
  CaptureQuiescent =>
    \A k \in MicIds : ai.mics[k].tracks # "live" /\ ~ai.mics[k].timer

\* C15: when the microphone request of a mounted controller is denied, the
\* error is set and the controller is idle afterwards: not recording, not
\* transcribing, holding no stream and no timer.
C15_MicDeniedLeavesIdle ==
  [][\A k \in MicIds :
       ai.status = "mounted" /\ AI_MicDenied(k) =>
         /\ ai'.error = ErrMicrophone
         /\ ~ai'.isRecording
         /\ ~ai'.isTranscribing
         /\ ai'.streamRef = 0
         /\ ai'.timerRef = 0]_vars

\* C16: when a transcription of a mounted controller fails, the error is set,
\* the controller is idle afterwards (not transcribing, not recording) and
\* the transcript, file name, result and tab of the application stay as
\* they were.
C16_TranscriptionFailureLeavesIdle ==
  [][\A k \in 1..MaxTranscribe :
       ai.status = "mounted" /\ AI_TranscribeRejected(k) =>
         /\ ai'.error # Null
         /\ ~ai'.isTranscribing
         /\ ~ai'.isRecording
         /\ UNCHANGED << transcript, fileName, summaryResult, activeInputTab >>]_vars

\* C17: a stop of a recording controller leaves recording, and once the stop
\* event of the recorder has been handled in a mounted controller one more
\* transcription request is in flight, carrying the chunks of that recorder
\* in one blob, no track is live, no timer is set, the chunk buffer is empty
\* and the controller is transcribing and not recording.
C17_StopHandsOverOneBlob ==
  [][/\ ai.status = "mounted" /\ ai.isRecording /\ AI_StopRecording =>
          ~ai'.isRecording
     /\ \A k \in MicIds, size \in ChunkSizes :
          ai.status = "mounted" /\ AI_RecorderStopTask(k, size) =>
            /\ Len(ai'.calls) = Len(ai.calls) + 1
            /\ ai'.calls[Len(ai'.calls)].blob = IF size > 0 THEN << k >> ELSE << >>
            /\ \A m \in MicIds : ai'.mics[m].tracks # "live" /\ ~ai'.mics[m].timer
            /\ ai'.chunks = << >>
            /\ ai'.isTranscribing
            /\ ~ai'.isRecording]_vars

\* the content types the claim accepts: the first six characters are audio/
ClaimIsAudioType(type) ==
  /\ Len(type) >= 6
  /\ type[1] = "a" /\ type[2] = "u" /\ type[3] = "d"
  /\ type[4] = "i" /\ type[5] = "o" /\ type[6] = "/"

\* C18: an audio file whose type does not start with audio/ sets the error,
\* issues no transcription request and leaves the controller not
\* transcribing; a file whose type does issues exactly one request.
C18_AudioFileAcceptedByType ==
  [][\A type \in AudioFileTypes :
       /\ AI_AudioFile(type) /\ ~ClaimIsAudioType(type) =>
            /\ ai'.error = ErrAudioFile
            /\ ai'.calls = ai.calls
            /\ ~ai'.isTranscribing
       /\ AI_AudioFile(type) /\ ClaimIsAudioType(type) =>
            /\ Len(ai'.calls) = Len(ai.calls) + 1
            /\ SubSeq(ai'.calls, 1, Len(ai.calls)) = ai.calls
            /\ ai'.calls[Len(ai'.calls)].mimeType = type
            /\ ai'.isTranscribing]_vars

\* a file that is not audio has been turned away
C18_Witness ==
  /\ ai.status = "mounted"
  /\ ai.error = ErrAudioFile
  /\ ~ai.isTranscribing
  /\ ai.calls = << >>

(***************************************************************************)
(* Properties of the playback engine, checked under SpecPlayback.          *)
(***************************************************************************)
\* the generateSpeech() requests of an instance that are in flight
SpeechInFlight(d) ==
  { k \in 1..Len(d.calls) : d.calls[k].pc = "speech" }

PlayingSources ==
  { p \in Displays \X SourceIds : rd[p[1]].srcs[p[2]].state = "playing" }

\* C4: at most one playback source is alive at any time.
C4_AtMostOneSourceAlive == Cardinality(PlayingSources) <= 1

\* an unmounted ResultDisplay none of whose callbacks is still to run and
\* whose sources have played to their end
PlaybackQuiescent(i) ==
  /\ rd[i].status = "unmounted"
  /\ rd[i].calls = <<>>
  /\ \A s \in SourceIds : rd[i].srcs[s].state # "playing" /\ ~rd[i].srcs[s].pending

\* C5: once a playback engine is torn down and nothing of it is still to
\* run, it holds no open audio context; as no step can close the context
\* afterwards, this is the state the claim says holds from some point on.
C5_TeardownReleasesPlayback ==
  \A i \in Displays :
    PlaybackQuiescent(i) => rd[i].ctx \in {Null, "closed"}

\* C11: a toggle of a playing engine stops the active source at once,
\* releases the handle and sets the state to idle, starting no request; the
\* toggle after it starts one fresh synthesis request and starts no source,
\* the handle staying released.
C11_ToggleWhilePlayingStops ==
  [][\A i \in Displays :
       /\ rd[i].status = "mounted" /\ rd[i].audioState = "playing" /\ RD_Toggle(i) =>
            /\ rd'[i].audioState = "idle"
            /\ rd'[i].srcRef = 0
            /\ rd[i].srcRef # 0
            /\ rd'[i].srcs[rd[i].srcRef].state # "playing"
            /\ ~(rd'[i].srcs[rd[i].srcRef].pending /\ rd'[i].srcs[rd[i].srcRef].onended)
            /\ rd'[i].calls = rd[i].calls
       /\ rd[i].lastEnd = "stopped" /\ rd[i].audioState = "idle" /\ RD_Toggle(i) =>
            /\ rd'[i].audioState = "loading"
            /\ rd'[i].calls = Append(rd[i].calls, [pc |-> "speech", payload |-> <<>>])
            /\ Cardinality(SpeechInFlight(rd'[i])) = 1
            /\ rd'[i].srcRef = 0
            /\ rd'[i].srcs = rd[i].srcs]_vars

\* playback was stopped by a toggle and the next toggle has issued its request
C11_Witness ==
  \E i \in Displays :
    /\ rd[i].status = "mounted"
    /\ rd[i].lastEnd = "stopped"
    /\ rd[i].audioState = "loading"
    /\ rd[i].srcRef = 0
    /\ Cardinality(SpeechInFlight(rd[i])) = 1

\* C12: when the ended event of a source reaches its handler in a mounted
\* engine, the engine is playing that source, and the event alone sets the
\* state to idle and releases the handle.
C12_NaturalEndReturnsToIdle ==
  [][\A i \in Displays, s \in SourceIds :
       /\ rd[i].status = "mounted"
       /\ rd[i].srcs[s].onended
       /\ RD_EndedEvent(i, s)
       => /\ rd[i].audioState = "playing"
          /\ rd[i].srcRef = s
          /\ rd'[i].audioState = "idle"
          /\ rd'[i].srcRef = 0
          /\ rd'[i].calls = rd[i].calls]_vars

\* a playback has ended by itself and the engine is at rest
C12_Witness ==
  \E i \in Displays :
    /\ rd[i].status = "mounted"
    /\ rd[i].lastEnd = "ended"
    /\ rd[i].audioState = "idle"
    /\ rd[i].srcRef = 0
    /\ rd[i].calls = <<>>

\* a payload decodeAudioData cannot turn into a buffer: no bytes, or an odd
\* number of them
Undecodable(payload) == Len(payload) = 0 \/ Len(payload) % 2 = 1

\* C13: in a mounted engine a failed synthesis, a failed resume and a payload
\* that cannot be decoded each set the playback error and the state idle, and
\* the state is loading only while a promise of the toggle is still pending.
C13_PlaybackFailureReturnsToIdle ==
  [][\A i \in Displays :
       rd[i].status = "mounted" /\ rd'[i].status = "mounted" =>
         /\ \A k \in 1..MaxSpeech :
              /\ Len(rd'[i].calls) < Len(rd[i].calls)
              /\ \/ RD_SpeechRejected(i, k)
                 \/ RD_ResumeRejected(i, k)
                 \/ RD_ResumeResolved(i, k) /\ Undecodable(rd[i].calls[k].payload)
                 \/ \E p \in Payloads, fresh \in {"running", "suspended"} :
                      /\ RD_SpeechResolved(i, k, p, fresh)
                      /\ Undecodable(p)
                      /\ rd'[i].calls = <<>>
              => /\ rd'[i].ttsError # Null
                 /\ rd'[i].audioState = "idle"
         /\ rd[i].audioState = "loading" => rd[i].calls # <<>>
         /\ rd'[i].audioState = "loading" => rd'[i].calls # <<>>]_vars

\* a toggle has failed: the error is shown and the engine is at rest
C13_Witness ==
  \E i \in Displays :
    /\ rd[i].status = "mounted"
    /\ rd[i].ttsError # Null
    /\ rd[i].audioState = "idle"
    /\ rd[i].calls = <<>>

(***************************************************************************)
(* Properties of playback and capture together, checked under SpecSession. *)
(***************************************************************************)
\* the recorders that are recording a microphone stream
RecordingMics == { k \in MicIds : ai.mics[k].recorder = "recording" }

\* C19: no source is playing while a microphone stream is being recorded.
C19_PlaybackAndRecordingExclusive ==
  ~(PlayingSources # {} /\ RecordingMics # {})

(***************************************************************************)
(* Properties of the application state machine, checked under SpecApp.     *)
(***************************************************************************)
\* C6 as stated: a summarization that fails leaves the result that was there
\* before the request as it was, and sets an error.
C6_FailureKeepsPriorResult ==
  [][\A k \in 1..MaxSummarize :
       App_SummarizeRejected(k) =>
         /\ error' # Null
         /\ summaryResult' = summarizeCalls[k].prior]_vars

\* C6: a summarization that fails sets the error message and stores no
\* result; the result from before the request is not there to keep, it was
\* set to null when the request was issued.
C6_FailureSetsErrorAndNoResult ==
  [][\A k \in 1..MaxSummarize :
       App_SummarizeRejected(k) =>
         /\ error' = ErrSummarize
         /\ summaryResult = NoResult
         /\ summaryResult' = NoResult]_vars

\* a request issued over an earlier result has failed
C6_Witness ==
  /\ lastSettled.outcome = "rejected"
  /\ lastSettled.overResult
  /\ error = ErrSummarize
  /\ summaryResult = NoResult

\* C7: Clear empties transcript, result, error, file name and meeting title,
\* and no request issued before a Clear stores its result or its error after
\* it.
C7_ClearLeavesNothingBehind ==
  [][/\ App_handleClear =>
          /\ transcript' = <<>>
          /\ summaryResult' = NoResult
          /\ error' = Null
          /\ fileName' = <<>>
          /\ meetingTitle' = <<>>
     /\ \A k \in 1..MaxSummarize :
          App_SummarizeResolved(k) \/ App_SummarizeRejected(k) =>
            ~summarizeCalls[k].cleared]_vars

\* C8: at most one summarization request is in flight, and one is in flight
\* only while isLoading.
C8_AtMostOneSummarization ==
  /\ Len(summarizeCalls) <= 1
  /\ Len(summarizeCalls) = 1 => isLoading

\* a request is in flight over a transcript the button would otherwise accept
C8_Witness ==
  /\ isLoading
  /\ Len(summarizeCalls) = 1
  /\ activeInputTab = "text"
  /\ transcript # <<>>

\* blank as the claim means it: nothing but whitespace
OnlyWhitespace(s) == \A n \in 1..Len(s) : s[n] \in Whitespace

\* C9: Summarize over a transcript that is blank issues no request, does not
\* start loading and sets the empty-input error.
C9_BlankTranscriptIsRejected ==
  [][App_handleSummarize /\ OnlyWhitespace(transcript) =>
       /\ error' = ErrEmptyTranscript
       /\ summarizeCalls' = summarizeCalls
       /\ summarizeCalls' = <<>>
       /\ ~isLoading']_vars

\* Summarize has been pressed over a transcript of whitespace
C9_Witness ==
  /\ transcript # <<>>
  /\ OnlyWhitespace(transcript)
  /\ error = ErrEmptyTranscript
  /\ summarizeCalls = <<>>
  /\ ~isLoading

\* the files the claim accepts: MIME type text/plain, or a name whose last
\* four characters are .vtt
ClaimAcceptsFile(f) ==
  \/ f.type = "text/plain"
  \/ /\ Len(f.name) >= 4
     /\ f.name[Len(f.name) - 3] = "."
     /\ f.name[Len(f.name) - 2] = "v"
     /\ f.name[Len(f.name) - 1] = "t"
     /\ f.name[Len(f.name)] = "t"

\* C10: an upload of a file of type text/plain or with a name ending in .vtt
\* is read, and sets the transcript to the content of the file and the file
\* name to its name and clears result and error; an upload of any other file
\* changes none of them and reads nothing.
C10_UploadAcceptsTextAndVtt ==
  [][\A f \in Files :
       /\ App_handleFile(f) /\ ClaimAcceptsFile(f) => f \in fileReads'
       /\ App_handleFile(f) /\ ~ClaimAcceptsFile(f) =>
            UNCHANGED << transcript, fileName, summaryResult, error, fileReads >>
       /\ App_ReaderLoad(f) =>
            /\ ClaimAcceptsFile(f)
            /\ transcript' = f.content
            /\ fileName' = f.name
            /\ summaryResult' = NoResult
            /\ error' = Null]_vars

\* a file accepted by its name alone has been loaded
C10_Witness ==
  \E f \in Files :
    /\ f.type # "text/plain"
    /\ f \notin fileReads
    /\ transcript = f.content
    /\ fileName = f.name
    /\ summaryResult = NoResult
    /\ error = Null

\* C14: when every gateway call returns or fails, a state with isLoading is
\* always followed by one without; the step that ends it stores a result when
\* the call returned and sets an error when it failed.
C14_SummarizingIsLeft ==
  /\ isLoading ~> ~isLoading
  /\ [][\A k \in 1..MaxSummarize :
          /\ App_SummarizeResolved(k) =>
               ~isLoading' /\ summaryResult' # NoResult
          /\ App_SummarizeRejected(k) =>
               ~isLoading' /\ error' # Null]_vars

\* a request has settled and the application is no longer summarizing
C14_Witness ==
  /\ lastSettled.outcome \in {"resolved", "rejected"}
  /\ ~isLoading
  /\ summarizeCalls = <<>>
  /\ summaryResult # NoResult \/ error # Null

(***************************************************************************)
(* Properties of summarizeTranscript, checked under SpecSummarize.         *)
(***************************************************************************)
Digits == {"0", "1", "2", "3", "4", "5", "6", "7", "8", "9"}

\* YYYY-MM-DD
WellFormedDate(chars) ==
  /\ Len(chars) = 10
  /\ chars[5] = "-" /\ chars[8] = "-"
  /\ \A n \in {1, 2, 3, 4, 6, 7, 9, 10} : chars[n] \in Digits

\* C20: in the result of a call that returns, every action item has a string
\* that is not empty as priority, Medium when the response had none, and as
\* dueDate the empty string or a string of the form YYYY-MM-DD, and
\* discussionBreakdown is a list, the empty one when the response had none.
C20_ReturnedResultIsNormalised ==
  gateway.pc = "returned" =>
    /\ gateway.result.actionItems.t = "array" =>
         \A n \in 1..Len(gateway.result.actionItems.items) :
           LET item == gateway.result.actionItems.items[n]
               sent == gateway.response.actionItems.items[n]
           IN  /\ item.priority.t = "string" /\ item.priority.v # << >>
               /\ sent.priority.t = "undefined" => item.priority.v = Medium
               /\ item.dueDate.t = "string"
               /\ item.dueDate.v = << >> \/ WellFormedDate(item.dueDate.v)
    /\ gateway.result.discussionBreakdown.t = "array"
    /\ gateway.response.discussionBreakdown.t = "undefined" =>
         gateway.result.discussionBreakdown.entries = << >>

\* a response that is JSON but not of the shape of the schema: not an object,
\* actionItems missing or not a list, an item that is no object, a priority or
\* dueDate that is no string, a discussionBreakdown that is no list
ViolatesSchema(r) ==
  \/ r.t = "null"
  \/ /\ r.t = "object"
     /\ \/ r.actionItems.t # "array"
        \/ \E n \in 1..Len(r.actionItems.items) :
             \/ r.actionItems.items[n].t # "object"
             \/ r.actionItems.items[n].priority.t = "null"
             \/ r.actionItems.items[n].dueDate.t = "null"
        \/ r.discussionBreakdown.t \in {"null", "object"}

\* C21: a call whose response is not JSON or violates the schema throws and
\* returns nothing; a call that returns has changed nothing of the response
\* but a missing priority, a missing dueDate and a missing discussionBreakdown.
C21_ShapeViolationFails ==
  /\ gateway.pc \in {"parsed", "returned"} => gateway.response.t # "malformed"
  /\ gateway.pc = "returned" =>
       /\ ~ViolatesSchema(gateway.response)
       /\ gateway.result.t = gateway.response.t
       /\ gateway.result.actionItems.t = gateway.response.actionItems.t
       /\ \A n \in 1..Len(gateway.response.actionItems.items) :
            LET item == gateway.result.actionItems.items[n]
                sent == gateway.response.actionItems.items[n]
            IN  /\ item.t = sent.t
                /\ item.priority # sent.priority => Falsy(sent.priority)
                /\ item.dueDate # sent.dueDate => sent.dueDate.t = "undefined"
       /\ gateway.result.discussionBreakdown # gateway.response.discussionBreakdown =>
            gateway.response.discussionBreakdown.t \in {"undefined", "null"}

(***************************************************************************)
(* Properties of the priority filter, checked under SpecFilter.            *)
(***************************************************************************)
\* the positions of the items of a list with priority p
PositionsOf(items, p) == { n \in 1..Len(items) : items[n].priority = p }

\* the k-th position, in increasing order, of a set of positions
NthOf(positions, k) ==
  CHOOSE n \in positions : Cardinality({ m \in positions : m <= n }) = k

\* C22: under the filter All the shown list is the stored list; under High,
\* Medium or Low it holds exactly the stored items of that priority, in the
\* order they have in the stored list; no change of the filter changes the
\* stored list.
C22_FilterSelectsByPriority ==
  /\ [](/\ filter.activeFilter = All => filter.filteredActionItems = filter.actionItems
        /\ filter.activeFilter # All =>
             LET at == PositionsOf(filter.actionItems, filter.activeFilter)
             IN  /\ Len(filter.filteredActionItems) = Cardinality(at)
                 /\ \A k \in 1..Cardinality(at) :
                      filter.filteredActionItems[k] = filter.actionItems[NthOf(at, k)])
  /\ [][filter'.actionItems = filter.actionItems]_vars

\* a filter by priority shows some of the stored items and hides others
C22_Witness ==
  /\ filter.activeFilter = Medium
  /\ Len(filter.filteredActionItems) = 2
  /\ Len(filter.actionItems) = 3
  /\ filter.actionItems[2].priority = High

(***************************************************************************)
(* Further properties of the application state machine, checked under      *)
(* SpecApp.                                                                *)
(***************************************************************************)
\* C23: at most one of isLoading, an error and a result holds.
C23_LoadingErrorResultExclusive ==
  /\ ~(isLoading /\ error # Null)
  /\ ~(isLoading /\ summaryResult # NoResult)
  /\ ~(error # Null /\ summaryResult # NoResult)

(***************************************************************************)
(* Further properties of the capture controller, checked under SpecCapture.*)
(***************************************************************************)
\* the stop tasks queued by recorders and the transcription requests issued
StopTasksQueued(a) == Cardinality({ k \in MicIds : a.mics[k].stopTask })

\* C24: handleStopRecording invoked on a mounted controller that is not
\* recording changes nothing of the controller: no flag, no handle, no
\* recorder, no queued stop task and no transcription request; so two stops
\* in a row queue the one stop task of the first, and with it one request.
C24_StopIsIdempotent ==
  [][ai.status = "mounted" /\ ~ai.isRecording /\ AI_StopRecordingAgain =>
       /\ ai' = ai
       /\ StopTasksQueued(ai') = StopTasksQueued(ai)
       /\ ai'.calls = ai.calls]_vars

\* a recording has been stopped and the stop task of its recorder is queued,
\* the state in which a second stop is handled
C24_Witness ==
  /\ ai.status = "mounted"
  /\ ~ai.isRecording /\ ~ai.isTranscribing
  /\ ai.recorderRef # 0
  /\ ai.mics[ai.recorderRef].recorder = "inactive"
  /\ StopTasksQueued(ai) = 1
  /\ ENABLED AI_StopRecordingAgain

(***************************************************************************)
(* Properties of a delivered transcription, checked under SpecApp.         *)
(***************************************************************************)
\* C25: when processAudio hands a transcribed text to the application, the
\* transcript becomes that text whatever it was, the file name becomes
\* audio_transcription.txt, the text tab becomes the active one, and the
\* result and the error are cleared; nothing else of the application changes.
C25_TranscriptionReplacesTranscript ==
  [][\A text \in TranscribedTexts :
       App_TranscriptionDelivered(text) =>
         /\ transcript' = text
         /\ fileName' = AudioFileName
         /\ activeInputTab' = "text"
         /\ summaryResult' = NoResult
         /\ error' = Null
         /\ UNCHANGED << isLoading, meetingTitle, summarizeCalls >>]_vars

\* a transcription was delivered over a summary that had arrived: the result
\* is gone, the transcript is the transcribed text and the text tab is shown
C25_Witness ==
  /\ lastSettled.outcome = "resolved"
  /\ summarizeCalls = <<>>
  /\ summaryResult = NoResult /\ error = Null
  /\ fileName = AudioFileName
  /\ activeInputTab = "text"
  /\ transcript = <<"a">>

(***************************************************************************)
(* Properties of decodeAudioData, checked under SpecDecode.                *)
(***************************************************************************)
\* the signed 16-bit number whose two's complement is the bytes lo, hi
SignedSample(lo, hi) == ((lo + 256 * hi + 32768) % 65536) - 32768

\* sample i of a payload on a platform of the given byte order
SampleOf(data, i, order) ==
  IF order = "little"
    THEN SignedSample(data[2 * i - 1], data[2 * i])
    ELSE SignedSample(data[2 * i], data[2 * i - 1])

\* C26: a payload of 2*n bytes decodes to exactly n frames, frame i being the
\* signed 16-bit sample i over 32768, which lies between -1 and 1; a payload
\* with an odd number of bytes makes the call throw, the failure that takes
\* the start path of the playback to its catch block.
C26_DecodeYieldsNormalisedFrames ==
  /\ pcm.pc = "decoded" =>
       /\ Len(pcm.data) % 2 = 0
       /\ Len(pcm.frames) * 2 = Len(pcm.data)
       /\ \A i \in 1..Len(pcm.frames) :
            /\ pcm.frames[i].den = 32768
            /\ pcm.frames[i].num = SampleOf(pcm.data, i, pcm.order)
            /\ -1 * pcm.frames[i].den <= pcm.frames[i].num
            /\ pcm.frames[i].num <= pcm.frames[i].den
  /\ pcm.pc = "thrown" => Len(pcm.data) % 2 = 1 /\ ~DecodeSucceeds(pcm.data)
  /\ pcm.pc \in {"decoded", "thrown"} =>
       (Len(pcm.data) % 2 = 1 <=> pcm.pc = "thrown")

\* four bytes were decoded to two frames, the first of them the lowest sample
C26_Witness ==
  /\ pcm.pc = "decoded"
  /\ Len(pcm.data) = 4
  /\ Len(pcm.frames) = 2
  /\ pcm.order = "little"
  /\ pcm.frames[1].num = -32768
  /\ pcm.frames[2].num = 32767

\* the microphone streams with a live track
LiveStreams == { k \in MicIds : ai.mics[k].tracks = "live" }

\* C27: every stream with a live track is the one streamRef holds and every
\* recorder that records is the one mediaRecorderRef holds, so at most one of
\* each exists.
C27_OneStreamOneRecorder ==
  /\ \A k \in LiveStreams : ai.streamRef = k
  /\ \A k \in RecordingMics : ai.recorderRef = k
  /\ Cardinality(LiveStreams) <= 1
  /\ Cardinality(RecordingMics) <= 1

\* C28: a controller that was torn down starts no transcription request and
\* hands no transcript to the application: in no step from a state where it
\* is unmounted does the number of its pending requests grow or the
\* transcript, the file name or the result of the application change.
C28_TornDownControllerIsSilent ==
  [][ai.status = "unmounted" =>
       /\ Len(ai'.calls) <= Len(ai.calls)
       /\ \A k \in 1..MaxTranscribe, text \in TranscribedTexts :
            ~AI_TranscribeResolved(k, text)
       /\ UNCHANGED << transcript, fileName >>]_vars

\* C29: a response becomes the stored result only when the transcript is
\* still the one its request was issued for; the response to a request whose
\* transcript was replaced meanwhile leaves the result as it is.
C29_LateResponseIsDropped ==
  [][\A k \in 1..MaxSummarize :
       /\ App_SummarizeResolved(k)
       /\ summarizeCalls[k].transcript # transcript
       => /\ summaryResult' = summaryResult
          /\ summaryResult' # ResultOf(summarizeCalls[k])]_vars

(***************************************************************************)
(* Further properties of the playback engine, checked under SpecPlayback.  *)
(***************************************************************************)
\* C30: audioSourceRef of an engine holds a source exactly when the
\* audioState of that engine is playing; an engine React has unmounted has no
\* audioState that is playing.
C30_HandleHeldIffPlaying ==
  \A i \in Displays :
    rd[i].srcRef # 0 <=> (rd[i].status = "mounted" /\ rd[i].audioState = "playing")

\* C31: the ended event of a source that audioSourceRef no longer holds, the
\* source a toggle or the unmount effect stopped, changes neither audioState
\* nor audioSourceRef nor the pending toggles of its engine, whatever session
\* the engine is in by then.
C31_LateEndedEventIsIgnored ==
  [][\A i \in Displays, s \in SourceIds :
       rd[i].srcRef # s /\ RD_EndedEvent(i, s) =>
         /\ rd'[i].audioState = rd[i].audioState
         /\ rd'[i].srcRef = rd[i].srcRef
         /\ rd'[i].calls = rd[i].calls
         /\ rd'[i].ttsError = rd[i].ttsError]_vars

\* the ended event of a stopped source is queued while its engine is in the
\* session the next toggle started
C31_Witness ==
  \E i \in Displays, s \in SourceIds :
    /\ rd[i].status = "mounted"
    /\ rd[i].srcs[s].pending
    /\ rd[i].srcRef # s
    /\ rd[i].audioState \in {"loading", "playing"}

=============================================================================
